---- MODULE Spec2Model ----
(***************************************************************************)
(* Model of rankcentral-next/src/lib/utils/pdf-extractor.py: the command   *)
(* line PDF text extractor (main, extract_text_from_pdf) and the regular   *)
(* expression normalizer clean_text_for_llm.                               *)
(*                                                                         *)
(* A text is a sequence of one-character strings.  Every re.sub of         *)
(* clean_text_for_llm is modelled by an operator that gives, for a         *)
(* position of the text, the end of the match of the pattern starting      *)
(* there (0 when the pattern does not match there), and by the scan of     *)
(* re.sub over the non-overlapping leftmost matches.                       *)
(***************************************************************************)
EXTENDS Integers, Sequences, FiniteSets, TLC

VARIABLES
    \* the environment of one run of the command
    argv,           \* sys.argv[1:], each argument a text
    document,       \* what the PDF library finds in the document, known
                    \* once a reader has parsed it
    \* main and extract_text_from_pdf
    pc, pdf_base64, pdf_bytes, page_num, text_content, full_text, result,
    exc, stdout, stderr, exit_code,
    \* the previous run of the command, for comparing two runs
    prev,
    \* clean_text_for_llm
    raw_text, text, line

envVars == <<argv, document>>
runVars == <<pc, pdf_base64, pdf_bytes, page_num, text_content, full_text,
             result, exc, stdout, stderr, exit_code>>
mainVars == <<envVars, runVars, prev>>
cleanVars == <<raw_text, text, line>>
vars == <<mainVars, cleanVars>>

-----------------------------------------------------------------------------
(* Character classes of Python's re module, restricted to ASCII.           *)

Lower == {"a","b","c","d","e","f","g","h","i","j","k","l","m",
          "n","o","p","q","r","s","t","u","v","w","x","y","z"}

Upper == {"A","B","C","D","E","F","G","H","I","J","K","L","M",
          "N","O","P","Q","R","S","T","U","V","W","X","Y","Z"}

Digit == {"0","1","2","3","4","5","6","7","8","9"}

\* [ \t]
Blank == {" ", "\t"}

\* \s, and the characters str.strip() and str.split() treat as whitespace
Whitespace == {" ", "\t", "\n", "\r", "\f"}

\* [.!?]
SentenceEnd == {".", "!", "?"}

\* [.,:;!?]
Punct == {".", ",", ":", ";", "!", "?"}

Max(S) == CHOOSE x \in S : \A y \in S : y <= x

\* First index at or after i whose character is not in S (Len(s)+1 if none):
\* the end of a greedy S+ or S* started at i.
RECURSIVE RunEnd(_, _, _)
RunEnd(s, i, S) ==
    IF i <= Len(s) /\ s[i] \in S THEN RunEnd(s, i + 1, S) ELSE i

\* '^' under re.MULTILINE: start of the text or just after a newline.
AtLineStart(s, i) == i = 1 \/ s[i - 1] = "\n"

\* '$' under re.MULTILINE: end of the text or just before a newline.
AtLineEnd(s, i) == i > Len(s) \/ s[i] = "\n"

\* First index at or after i where '$' holds: the end of a greedy '.*$'.
RECURSIVE LineEnd(_, _)
LineEnd(s, i) == IF AtLineEnd(s, i) THEN i ELSE LineEnd(s, i + 1)

\* End of a greedy '\s*$' started at d: the whitespace run is given back one
\* character at a time until '$' holds; 0 when it never does.
SpaceThenDollar(s, d) ==
    LET w == RunEnd(s, d, Whitespace)
        C == {e \in d..w : AtLineEnd(s, e)}
    IN  IF C = {} THEN 0 ELSE Max(C)

\* Has s the characters of p at positions i, i+1, ... ?
HasAt(s, i, p) ==
    /\ i + Len(p) - 1 <= Len(s)
    /\ \A k \in 1..Len(p) : s[i + k - 1] = p[k]

-----------------------------------------------------------------------------
(* The patterns of clean_text_for_llm.  Each operator is the (exclusive)   *)
(* end of the match that starts at position i of s, or 0.                  *)

\* Mutant of MatchBlanks: r' +', tabs are not collapsed.
MatchBlanksSpacesOnly(s, i) ==
    IF s[i] = " " THEN RunEnd(s, i, {" "}) ELSE 0

\* r'[ \t]+'
MatchBlanks(s, i) == IF s[i] \in Blank THEN RunEnd(s, i, Blank) ELSE 0

\* r'\r\n'
MatchCRLF(s, i) == IF HasAt(s, i, <<"\r", "\n">>) THEN i + 2 ELSE 0

\* r'\r'
MatchCR(s, i) == IF s[i] = "\r" THEN i + 1 ELSE 0

\* r'\n{3,}'
MatchNewlines(s, i) ==
    LET e == RunEnd(s, i, {"\n"}) IN IF e - i >= 3 THEN e ELSE 0

\* Mutant of MatchPageLine: r'^Page \d+.*\n?', the line terminator is
\* removed with the line.
MatchPageLineAndNewline(s, i) ==
    IF /\ AtLineStart(s, i)
       /\ HasAt(s, i, <<"P", "a", "g", "e", " ">>)
       /\ i + 5 <= Len(s)
       /\ s[i + 5] \in Digit
    THEN IF LineEnd(s, i + 5) <= Len(s)
         THEN LineEnd(s, i + 5) + 1
         ELSE LineEnd(s, i + 5)
    ELSE 0

\* r'^Page \d+.*$' (MULTILINE): '.' does not match a newline, so the match
\* ends at the end of the line.
MatchPageLine(s, i) ==
    IF /\ AtLineStart(s, i)
       /\ HasAt(s, i, <<"P", "a", "g", "e", " ">>)
       /\ i + 5 <= Len(s)
       /\ s[i + 5] \in Digit
    THEN LineEnd(s, i + 5)
    ELSE 0

\* Mutant of MatchDigitLine: r'^\d\s*$', one digit only.
MatchSingleDigitLine(s, i) ==
    IF AtLineStart(s, i) /\ s[i] \in Digit
    THEN SpaceThenDollar(s, i + 1)
    ELSE 0

\* r'^\d+\s*$' (MULTILINE): \s also matches newlines
MatchDigitLine(s, i) ==
    IF AtLineStart(s, i) /\ s[i] \in Digit
    THEN SpaceThenDollar(s, RunEnd(s, i, Digit))
    ELSE 0

\* r'[ \t]+$' (MULTILINE)
MatchTrailing(s, i) ==
    IF s[i] \in Blank /\ AtLineEnd(s, RunEnd(s, i, Blank))
    THEN RunEnd(s, i, Blank)
    ELSE 0

\* Mutant of MatchLeading: r'^\t{1,2}', leading spaces are kept.
MatchLeadingTabs(s, i) ==
    IF AtLineStart(s, i) /\ s[i] = "\t"
    THEN IF i + 1 <= Len(s) /\ s[i + 1] = "\t" THEN i + 2 ELSE i + 1
    ELSE 0

\* r'^[ \t]{1,2}' (MULTILINE)
MatchLeading(s, i) ==
    IF AtLineStart(s, i) /\ s[i] \in Blank
    THEN IF i + 1 <= Len(s) /\ s[i + 1] \in Blank THEN i + 2 ELSE i + 1
    ELSE 0

\* r'([a-z])([A-Z])'
MatchCamel(s, i) ==
    IF s[i] \in Lower /\ i + 1 <= Len(s) /\ s[i + 1] \in Upper
    THEN i + 2 ELSE 0

\* r'([.!?])([A-Z])'
MatchSentence(s, i) ==
    IF s[i] \in SentenceEnd /\ i + 1 <= Len(s) /\ s[i + 1] \in Upper
    THEN i + 2 ELSE 0

\* r'^\s*[.,:;!?]\s*$' (MULTILINE): both \s* also match newlines
MatchOrphanPunct(s, i) ==
    LET p == RunEnd(s, i, Whitespace)
    IN  IF AtLineStart(s, i) /\ p <= Len(s) /\ s[p] \in Punct
        THEN SpaceThenDollar(s, p + 1)
        ELSE 0

\* r'  +'
MatchSpaces(s, i) ==
    LET e == RunEnd(s, i, {" "}) IN IF e - i >= 2 THEN e ELSE 0

-----------------------------------------------------------------------------------------------------------------------------------------------------
(* re.sub(pattern, repl, s): scan left to right; where the pattern         *)
(* matches, emit the replacement and resume after the match; elsewhere     *)
(* copy one character.  No pattern above matches the empty string.  A      *)
(* pattern is named by the source line of its re.sub.                      *)

\* End of the match at position i of s of the pattern of the given line.
Match(pattern, s, i) ==
    CASE pattern = 90 -> MatchBlanks(s, i)
      [] pattern = 91 -> MatchCRLF(s, i)
      [] pattern = 92 -> MatchCR(s, i)
      [] pattern = 93 -> MatchNewlines(s, i)
      [] pattern = 96 -> MatchPageLine(s, i)
      [] pattern = 97 -> MatchDigitLine(s, i)
      [] pattern = 100 -> MatchTrailing(s, i)
      [] pattern = 101 -> MatchLeading(s, i)
      [] pattern = 104 -> MatchCamel(s, i)
      [] pattern = 105 -> MatchSentence(s, i)
      [] pattern = 108 -> MatchOrphanPunct(s, i)
      [] pattern = 111 -> MatchSpaces(s, i)

\* The replacement for the match at position i: ' ', '\n', '\n\n', '' or
\* r'\1 \2'.
Repl(pattern, s, i) ==
    CASE pattern \in {90, 111} -> <<" ">>
      [] pattern \in {91, 92} -> <<"\n">>
      [] pattern = 93 -> <<"\n", "\n">>
      [] pattern \in {96, 97, 100, 101, 108} -> <<>>
      [] pattern \in {104, 105} -> <<s[i], " ", s[i + 1]>>

RECURSIVE ReSub(_, _, _)
ReSub(pattern, s, i) ==
    IF i > Len(s) THEN <<>>
    ELSE LET e == Match(pattern, s, i)
         IN  IF e = 0
             THEN <<s[i]>> \o ReSub(pattern, s, i + 1)
             ELSE Repl(pattern, s, i) \o ReSub(pattern, s, e)

\* str.strip()
Strip(s) ==
    LET keep == {k \in 1..Len(s) : s[k] \notin Whitespace}
    IN  IF keep = {} THEN <<>>
        ELSE LET lo == CHOOSE k \in keep : \A j \in keep : k <= j
             IN  SubSeq(s, lo, Max(keep))

\* The statements of clean_text_for_llm, in source order.
CollapseBlanks(s) == ReSub(90, s, 1)
NormalizeCRLF(s) == ReSub(91, s, 1)
NormalizeCR(s) == ReSub(92, s, 1)
CollapseNewlines(s) == ReSub(93, s, 1)
RemovePageLines(s) == ReSub(96, s, 1)
RemoveDigitLines(s) == ReSub(97, s, 1)
StripTrailing(s) == ReSub(100, s, 1)
StripLeading(s) == ReSub(101, s, 1)
SplitCamel(s) == ReSub(104, s, 1)
SplitSentence(s) == ReSub(105, s, 1)
RemoveOrphanPunct(s) == ReSub(108, s, 1)
CollapseSpaces(s) == ReSub(111, s, 1)

clean_text_for_llm(s) ==
    Strip(CollapseSpaces(RemoveOrphanPunct(SplitSentence(SplitCamel(
    StripLeading(StripTrailing(RemoveDigitLines(RemovePageLines(
    CollapseNewlines(NormalizeCR(NormalizeCRLF(CollapseBlanks(s)))))))))))))

-----------------------------------------------------------------------------
(* base64.b64decode(s) with validate=False, as binascii.a2b_base64 does    *)
(* it: characters outside the alphabet are skipped, '=' ends the data once *)
(* it completes a quad, and data left in an open quad is an error.         *)

B64Chars ==
    <<"A","B","C","D","E","F","G","H","I","J","K","L","M",
      "N","O","P","Q","R","S","T","U","V","W","X","Y","Z",
      "a","b","c","d","e","f","g","h","i","j","k","l","m",
      "n","o","p","q","r","s","t","u","v","w","x","y","z",
      "0","1","2","3","4","5","6","7","8","9","+","/">>

B64Alphabet == {B64Chars[k] : k \in 1..64}

B64Value(c) == (CHOOSE k \in 1..64 : B64Chars[k] = c) - 1

\* The characters of the model that str.encode('ascii') rejects.
NonAscii == {"é"}

\* str(e) of an exception: the text of the message and the number formatted
\* into it (0 when the message has none).
Message(m, n) == [msg |-> m, n |-> n]

Decoded(b) == [ok |-> TRUE, bytes |-> b, error |-> Message("", 0)]
DecodeError(m, n) == [ok |-> FALSE, bytes |-> <<>>, error |-> Message(m, n)]

RECURSIVE a2b_base64(_, _, _, _, _, _)
a2b_base64(s, i, quad_pos, leftchar, pads, out) ==
    IF i > Len(s)
    THEN IF quad_pos = 0 THEN Decoded(out)
         ELSE IF quad_pos = 1
         THEN DecodeError("Invalid base64-encoded string: number of data characters (%d) cannot be 1 more than a multiple of 4",
                          (Len(out) \div 3) * 4 + 1)
         ELSE DecodeError("Incorrect padding", 0)
    ELSE IF s[i] = "="
    THEN IF quad_pos >= 2 /\ quad_pos + pads + 1 >= 4
         THEN Decoded(out)
         ELSE a2b_base64(s, i + 1, quad_pos, leftchar,
                         IF quad_pos >= 2 THEN pads + 1 ELSE pads, out)
    ELSE IF s[i] \notin B64Alphabet
    THEN a2b_base64(s, i + 1, quad_pos, leftchar, pads, out)
    ELSE LET c == B64Value(s[i])
         IN  CASE quad_pos = 0 ->
                    a2b_base64(s, i + 1, 1, c, 0, out)
               [] quad_pos = 1 ->
                    a2b_base64(s, i + 1, 2, c % 16, 0,
                               Append(out, leftchar * 4 + c \div 16))
               [] quad_pos = 2 ->
                    a2b_base64(s, i + 1, 3, c % 4, 0,
                               Append(out, leftchar * 16 + c \div 4))
               [] quad_pos = 3 ->
                    a2b_base64(s, i + 1, 0, 0, 0,
                               Append(out, leftchar * 64 + c))

b64decode(s) ==
    IF \E k \in 1..Len(s) : s[k] \in NonAscii
    THEN DecodeError("string argument should contain only ASCII characters", 0)
    ELSE a2b_base64(s, 1, 0, 0, 0, <<>>)

-----------------------------------------------------------------------------
(* The PDF library (PyPDF2), an external collaborator: one byte string is  *)
(* the document, any other byte string is not a PDF.  What the library     *)
(* finds in the document (its pages, or a page tree it cannot list) is     *)
(* chosen by the environment when a reader first parses it, and is the     *)
(* same for every later reader of the same bytes.                          *)

\* The bytes of the document: b64decode of "QQ==".
PdfBytes == <<65>>

PdfReader(bytes) ==
    IF bytes = <<>> THEN [ok |-> FALSE, error |-> Message("Cannot read an empty file", 0)]
    ELSE IF bytes # PdfBytes THEN [ok |-> FALSE, error |-> Message("EOF marker not found", 0)]
    ELSE [ok |-> TRUE, error |-> Message("", 0)]

PagesError == Message("Could not read the page tree", 0)

Unparsed == [known |-> FALSE, pages |-> <<>>, broken |-> FALSE]
Parsed(pages, broken) == [known |-> TRUE, pages |-> pages, broken |-> broken]

\* page.extract_text(): a text, or an exception
PageText(t) == [raises |-> FALSE, text |-> t]
PageRaises == [raises |-> TRUE, text |-> <<>>]
ExtractError == Message("extract_text failed", 0)

MaxPages == 2

PageOutcomes ==
    { PageText(<<"a", "B">>), PageText(<<" ", "\n">>), PageText(<<"1">>),
      PageRaises }

RECURSIVE PageLists(_)
PageLists(n) ==
    IF n = 0 THEN {<<>>}
    ELSE LET L == PageLists(n - 1)
         IN  L \cup {Append(l, o) : l \in L, o \in PageOutcomes}

\* The reader PdfReader builds: of a document parsed before, what was found
\* then; of a new document, any pages.
ReaderOf(doc) ==
    IF doc.known THEN {doc}
    ELSE {Parsed(l, FALSE) : l \in PageLists(MaxPages)}
             \cup {Parsed(<<>>, TRUE)}

-----------------------------------------------------------------------------
(* The result dictionaries of extract_text_from_pdf.                       *)

\* "\n\n".join(text_content)
RECURSIVE Join(_)
Join(ts) ==
    IF ts = <<>> THEN <<>>
    ELSE IF Len(ts) = 1 THEN ts[1]
    ELSE ts[1] \o <<"\n", "\n">> \o Join(Tail(ts))

\* len(cleaned_text.split())
WordCount(s) ==
    Cardinality({k \in 1..Len(s) :
        s[k] \notin Whitespace /\ (k = 1 \/ s[k - 1] \in Whitespace)})

RECURSIVE GCD(_, _)
GCD(a, b) == IF b = 0 THEN a ELSE GCD(b, a % b)

\* word_count / page_count if page_count > 0 else 0: the quotient as a
\* fraction in lowest terms; the else branch is the integer 0, not a float.
AvgWordsPerPage(word_count, page_count) ==
    IF page_count > 0
    THEN LET g == GCD(word_count, page_count)
         IN  [num |-> word_count \div g, den |-> page_count \div g, float |-> TRUE]
    ELSE [num |-> 0, den |-> 1, float |-> FALSE]

EmptyDict == [k \in {} |-> 0]

SuccessResult(cleaned_text, page_count) ==
    [success |-> TRUE,
     text |-> cleaned_text,
     metadata |-> [page_count |-> page_count,
                   word_count |-> WordCount(cleaned_text),
                   char_count |-> Len(cleaned_text),
                   avg_words_per_page |->
                       AvgWordsPerPage(WordCount(cleaned_text), page_count)]]

\* Mutant of FailureResult: the failure carries zeroed metadata.
FailureResultWithMetadata(e) ==
    [success |-> FALSE, error |-> e, text |-> <<>>,
     metadata |-> [page_count |-> 0, word_count |-> 0, char_count |-> 0,
                   avg_words_per_page |-> AvgWordsPerPage(0, 0)]]

FailureResult(e) ==
    [success |-> FALSE, error |-> e, text |-> <<>>, metadata |-> EmptyDict]

NoResult == [none |-> TRUE]
NoException == [stage |-> "none", error |-> Message("", 0)]
Raised(stage, e) == [stage |-> stage, error |-> e]

\* json.dumps(result, indent=2): the document that serializes the result
JsonDumps(r) == [json |-> r]

-----------------------------------------------------------------------------
(* main                                                                    *)

DataUriPrefix ==
    <<"d","a","t","a",":","a","p","p","l","i","c","a","t","i","o","n","/",
      "p","d","f",";","b","a","s","e","6","4",",">>

\* s.startswith(p)
StartsWith(s, p) == HasAt(s, 1, p)

\* s.split(',', 1)[1]
AfterFirstComma(s) ==
    LET i == CHOOSE k \in 1..Len(s) :
                 s[k] = "," /\ \A j \in 1..(k - 1) : s[j] # ","
    IN  SubSeq(s, i + 1, Len(s))

UsageLine == Message("Usage: python pdf-extractor.py <base64_pdf_content>", 0)

Warning(page, e) ==
    [msg |-> "Warning: Error extracting text from page %d: " \o e.msg, n |-> page]

FreshRun ==
    /\ pc = "main"
    /\ pdf_base64 = <<>>
    /\ pdf_bytes = <<>>
    /\ page_num = 0
    /\ text_content = <<>>
    /\ full_text = <<>>
    /\ result = NoResult
    /\ exc = NoException
    /\ stdout = <<>>
    /\ stderr = <<>>
    /\ exit_code = -1

\* Mutant of Usage: the usage line is printed without file=sys.stderr.
UsageToStdout ==
    /\ pc = "main"
    /\ Len(argv) # 1
    /\ stdout' = Append(stdout, UsageLine)
    /\ exit_code' = 1
    /\ pc' = "exit"
    /\ UNCHANGED <<envVars, prev, cleanVars, pdf_base64, pdf_bytes, page_num,
                   text_content, full_text, result, exc, stderr>>

\* lines 121-123: wrong number of arguments
Usage ==
    /\ pc = "main"
    /\ Len(argv) # 1
    /\ stderr' = Append(stderr, UsageLine)
    /\ exit_code' = 1
    /\ pc' = "exit"
    /\ UNCHANGED <<envVars, prev, cleanVars, pdf_base64, pdf_bytes, page_num,
                   text_content, full_text, result, exc, stdout>>

\* Mutant of StripDataUri: the data-URI prefix is never stripped.
StripDataUriNever ==
    /\ pc = "main"
    /\ Len(argv) = 1
    /\ pdf_base64' = argv[1]
    /\ pc' = "decode"
    /\ UNCHANGED <<envVars, prev, cleanVars, pdf_bytes, page_num,
                   text_content, full_text, result, exc, stdout, stderr,
                   exit_code>>

\* lines 125-131: take the argument, strip a data-URI prefix, call
\* extract_text_from_pdf
StripDataUri ==
    /\ pc = "main"
    /\ Len(argv) = 1
    /\ pdf_base64' = IF StartsWith(argv[1], DataUriPrefix)
                     THEN AfterFirstComma(argv[1])
                     ELSE argv[1]
    /\ pc' = "decode"
    /\ UNCHANGED <<envVars, prev, cleanVars, pdf_bytes, page_num,
                   text_content, full_text, result, exc, stdout, stderr,
                   exit_code>>

\* Mutant of Decode: a decode error is swallowed and the bytes decoded so
\* far (none) are passed on.
DecodeUnchecked ==
    /\ pc = "decode"
    /\ pdf_bytes' = b64decode(pdf_base64).bytes
    /\ pc' = "open"
    /\ UNCHANGED <<envVars, prev, cleanVars, pdf_base64, page_num,
                   text_content, full_text, result, exc, stdout, stderr,
                   exit_code>>

\* line 27
Decode ==
    /\ pc = "decode"
    /\ LET d == b64decode(pdf_base64)
       IN  IF d.ok
           THEN /\ pdf_bytes' = d.bytes
                /\ pc' = "open"
                /\ exc' = exc
           ELSE /\ exc' = Raised("decode", d.error)
                /\ pc' = "except"
                /\ pdf_bytes' = pdf_bytes
    /\ UNCHANGED <<envVars, prev, cleanVars, pdf_base64, page_num,
                   text_content, full_text, result, stdout, stderr, exit_code>>

\* Mutant of Open: PdfReader is called outside the try block, its exception
\* ends the process with a traceback and exit code 1.
OpenUncaught ==
    /\ pc = "open"
    /\ LET r == PdfReader(pdf_bytes)
       IN  IF r.ok
           THEN /\ pc' = "pages"
                /\ document' \in ReaderOf(document)
                /\ UNCHANGED <<exc, stderr, exit_code>>
           ELSE /\ pc' = "exit"
                /\ exc' = Raised("open", r.error)
                /\ stderr' = Append(stderr, r.error)
                /\ exit_code' = 1
                /\ UNCHANGED document
    /\ UNCHANGED <<argv, prev, cleanVars, pdf_base64, pdf_bytes, page_num,
                   text_content, full_text, result, stdout>>

\* lines 30-31
Open ==
    /\ pc = "open"
    /\ LET r == PdfReader(pdf_bytes)
       IN  IF r.ok
           THEN /\ pc' = "pages"
                /\ document' \in ReaderOf(document)
                /\ exc' = exc
           ELSE /\ pc' = "except"
                /\ exc' = Raised("open", r.error)
                /\ UNCHANGED document
    /\ UNCHANGED <<argv, prev, cleanVars, pdf_base64, pdf_bytes, page_num,
                   text_content, full_text, result, stdout, stderr, exit_code>>

\* line 35: reader.pages cannot be listed; the exception leaves the loop
ListPagesFails ==
    /\ pc = "pages"
    /\ document.broken
    /\ exc' = Raised("pages", PagesError)
    /\ pc' = "except"
    /\ UNCHANGED <<envVars, prev, cleanVars, pdf_base64, pdf_bytes, page_num,
                   text_content, full_text, result, stdout, stderr, exit_code>>

\* Mutant of ExtractPage: no try around page.extract_text(), its exception
\* reaches the outer except clause.
ExtractPageFatal ==
    /\ pc = "pages"
    /\ ~document.broken
    /\ page_num < Len(document.pages)
    /\ LET page == document.pages[page_num + 1]
       IN  IF page.raises
           THEN /\ exc' = Raised("pages", ExtractError)
                /\ pc' = "except"
                /\ UNCHANGED <<text_content, page_num>>
           ELSE /\ text_content' = IF Strip(page.text) # <<>>
                                   THEN Append(text_content, page.text)
                                   ELSE text_content
                /\ page_num' = page_num + 1
                /\ UNCHANGED <<exc, pc>>
    /\ UNCHANGED <<envVars, prev, cleanVars, pdf_base64, pdf_bytes,
                   full_text, result, stdout, stderr, exit_code>>

\* lines 35-42: one iteration of the loop over the pages
ExtractPage ==
    /\ pc = "pages"
    /\ ~document.broken
    /\ page_num < Len(document.pages)
    /\ LET page == document.pages[page_num + 1]
       IN  IF page.raises
           THEN /\ stderr' = Append(stderr, Warning(page_num + 1, ExtractError))
                /\ text_content' = text_content
           ELSE /\ stderr' = stderr
                /\ text_content' = IF Strip(page.text) # <<>>
                                   THEN Append(text_content, page.text)
                                   ELSE text_content
    /\ page_num' = page_num + 1
    /\ UNCHANGED <<envVars, prev, cleanVars, pc, pdf_base64, pdf_bytes,
                   full_text, result, exc, stdout, exit_code>>

\* lines 45-63: after the last page, join, clean, count and return
Assemble ==
    /\ pc = "pages"
    /\ ~document.broken
    /\ page_num = Len(document.pages)
    /\ full_text' = Join(text_content)
    /\ result' = SuccessResult(clean_text_for_llm(full_text'), Len(document.pages))
    /\ pc' = "print"
    /\ UNCHANGED <<envVars, prev, cleanVars, pdf_base64, pdf_bytes, page_num,
                   text_content, exc, stdout, stderr, exit_code>>

\* lines 65-71: the except clause
Except ==
    /\ pc = "except"
    /\ result' = FailureResult(exc.error)
    /\ pc' = "print"
    /\ UNCHANGED <<envVars, prev, cleanVars, pdf_base64, pdf_bytes, page_num,
                   text_content, full_text, exc, stdout, stderr, exit_code>>

\* line 132, and the normal end of the process
PrintResult ==
    /\ pc = "print"
    /\ stdout' = Append(stdout, JsonDumps(result))
    /\ exit_code' = 0
    /\ pc' = "exit"
    /\ UNCHANGED <<envVars, prev, cleanVars, pdf_base64, pdf_bytes, page_num,
                   text_content, full_text, result, exc, stderr>>

-----------------------------------------------------------------------------
(* The environment: the arguments, the document, and a second run of the   *)
(* command on the same argument wrapped in the data-URI prefix.            *)

MaxPayload == 5
MaxPrefix == 2
MaxArgs == 2

\* A base64 data character, the padding character, a character outside the
\* base64 alphabet, a character outside ASCII.
PayloadChars == {"Q", "=", "!", "é"}

RECURSIVE Payloads(_)
Payloads(n) ==
    IF n = 0 THEN {<<>>}
    ELSE LET P == Payloads(n - 1)
         IN  P \cup {Append(p, c) : p \in P, c \in PayloadChars}

Arguments == Payloads(MaxPayload)

ExtraArguments == {<<>>, <<"Q", "Q", "=", "=">>}

RECURSIVE ExtraArgvs(_)
ExtraArgvs(n) ==
    IF n < 2 THEN {}
    ELSE ExtraArgvs(n - 1) \cup [1..n -> ExtraArguments]

Argvs == {<<>>} \cup {<<a>> : a \in Arguments} \cup ExtraArgvs(MaxArgs)

NoRun == [ran |-> FALSE, argv |-> <<>>, stdout |-> <<>>, exit_code |-> -1]

CleanIdle == raw_text = <<>> /\ text = <<>> /\ line = 0

Init ==
    /\ argv \in Argvs
    /\ document = Unparsed
    /\ FreshRun
    /\ prev = NoRun
    /\ CleanIdle

RECURSIVE PrefixCount(_)
PrefixCount(s) ==
    IF StartsWith(s, DataUriPrefix)
    THEN 1 + PrefixCount(SubSeq(s, Len(DataUriPrefix) + 1, Len(s)))
    ELSE 0

\* The command is run again, on the same document, with the data-URI prefix
\* put before the argument of the run that has ended.
RunWithPrefix ==
    /\ pc = "exit"
    /\ Len(argv) = 1
    /\ PrefixCount(argv[1]) < MaxPrefix
    /\ prev' = [ran |-> TRUE, argv |-> argv, stdout |-> stdout,
                exit_code |-> exit_code]
    /\ argv' = <<DataUriPrefix \o argv[1]>>
    /\ pc' = "main"
    /\ pdf_base64' = <<>>
    /\ pdf_bytes' = <<>>
    /\ page_num' = 0
    /\ text_content' = <<>>
    /\ full_text' = <<>>
    /\ result' = NoResult
    /\ exc' = NoException
    /\ stdout' = <<>>
    /\ stderr' = <<>>
    /\ exit_code' = -1
    /\ UNCHANGED <<document, cleanVars>>

Next ==
    \/ Usage \/ StripDataUri \/ Decode \/ Open \/ ListPagesFails
    \/ ExtractPage \/ Assemble \/ Except \/ PrintResult \/ RunWithPrefix

Spec == Init /\ [][Next]_vars

-----------------------------------------------------------------------------
(* The normalizer as a state machine: one action per statement of          *)
(* clean_text_for_llm, named by its source line.  `line` is the line of    *)
(* the next statement to run, 116 the return.                              *)

MaxPieces == 4

\* Fragments the raw texts are built from: each character class a pattern
\* tests, an indentation of three blanks, and the head of a page header.
Pieces == { <<" ">>, <<" ", "\t", " ">>, <<"\n">>, <<"\r">>, <<"1">>,
            <<"a">>, <<"B">>, <<".">>, <<"P", "a", "g", "e", " ">> }

RECURSIVE PieceTexts(_)
PieceTexts(n) ==
    IF n = 0 THEN {<<>>}
    ELSE LET T == PieceTexts(n - 1)
         IN  T \cup {t \o p : t \in T, p \in Pieces}

\* "Page 1\nHello World\n\n\n\n123\nFoo.Bar"
ExampleRaw ==
    <<"P","a","g","e"," ","1","\n",
      "H","e","l","l","o"," ","W","o","r","l","d","\n","\n","\n","\n",
      "1","2","3","\n","F","o","o",".","B","a","r">>

RawTexts == PieceTexts(MaxPieces) \cup {ExampleRaw}

\* No run of the command is in progress while the normalizer is exercised.
MainIdle ==
    /\ argv = <<>>
    /\ document = Unparsed
    /\ pc = "idle"
    /\ pdf_base64 = <<>>
    /\ pdf_bytes = <<>>
    /\ page_num = 0
    /\ text_content = <<>>
    /\ full_text = <<>>
    /\ result = NoResult
    /\ exc = NoException
    /\ stdout = <<>>
    /\ stderr = <<>>
    /\ exit_code = -1
    /\ prev = NoRun

InitClean ==
    /\ raw_text \in RawTexts
    /\ text = raw_text
    /\ line = 90
    /\ MainIdle

Statement(at, to, out) ==
    /\ line = at
    /\ text' = out
    /\ line' = to
    /\ UNCHANGED <<raw_text, mainVars>>

Line90 == Statement(90, 91, CollapseBlanks(text))
Line91 == Statement(91, 92, NormalizeCRLF(text))
Line92 == Statement(92, 93, NormalizeCR(text))
Line93 == Statement(93, 96, CollapseNewlines(text))
Line96 == Statement(96, 97, RemovePageLines(text))
Line97 == Statement(97, 100, RemoveDigitLines(text))
Line100 == Statement(100, 101, StripTrailing(text))
Line101 == Statement(101, 104, StripLeading(text))
Line104 == Statement(104, 105, SplitCamel(text))
Line105 == Statement(105, 108, SplitSentence(text))
Line108 == Statement(108, 111, RemoveOrphanPunct(text))
Line111 == Statement(111, 114, CollapseSpaces(text))
Line114 == Statement(114, 116, Strip(text))

NextClean ==
    \/ Line90 \/ Line91 \/ Line92 \/ Line93 \/ Line96 \/ Line97 \/ Line100
    \/ Line101 \/ Line104 \/ Line105 \/ Line108 \/ Line111 \/ Line114

SpecClean == InitClean /\ [][NextClean]_vars

-----------------------------------------------------------------------------
(* Properties of the command (specification Spec).                         *)

Finished == pc = "exit" /\ Len(argv) = 1

FailureShape(r) ==
    /\ r.success = FALSE
    /\ DOMAIN r = {"success", "error", "text", "metadata"}
    /\ r.text = <<>>
    /\ r.metadata = EmptyDict

SuccessShape(r) ==
    /\ r.success = TRUE
    /\ DOMAIN r = {"success", "text", "metadata"}
    /\ DOMAIN r.metadata =
           {"page_count", "word_count", "char_count", "avg_words_per_page"}

\* C1: every result of extract_text_from_pdf is either a success (no error
\* field, the cleaned text, the four metadata fields) or a failure (empty
\* text, empty metadata, an error field), never a mixture.
C1_ResultShapes ==
    result # NoResult =>
        \/ SuccessShape(result) /\ result.text = clean_text_for_llm(full_text)
        \/ FailureShape(result)

\* A run that succeeded followed by a run on the same document that failed.
C1_Witness ==
    /\ Finished
    /\ prev.ran
    /\ SuccessShape(prev.stdout[1].json)
    /\ FailureShape(result)

\* C2: an exception raised at any stage inside the try block becomes a
\* failure result carrying its message, the result is printed as the one
\* JSON document, and a run with exactly one argument ends with exit code 0.
C2_SoleErrorBoundary ==
    /\ (exc.stage # "none" /\ pc \in {"print", "exit"}) =>
           (result # NoResult /\ ~result.success /\ result.error = exc.error)
    /\ Len(argv) = 1 => pc \in {"main", "decode", "open", "pages", "except",
                                "print", "exit"}
    /\ Finished =>
           (exit_code = 0 /\ result # NoResult /\ stdout = <<JsonDumps(result)>>)

\* The listing of the pages raised after the document was opened.
C2_Witness ==
    /\ Finished
    /\ exc.stage = "pages"
    /\ exit_code = 0
    /\ stdout = <<JsonDumps(FailureResult(PagesError))>>

\* Standard base64: whole quads of alphabet characters, the last one closed
\* by at most two '='.
ValidBase64(s) ==
    /\ Len(s) % 4 = 0
    /\ \E pad \in 0..2 :
          /\ pad <= Len(s)
          /\ \A k \in 1..(Len(s) - pad) : s[k] \in B64Alphabet
          /\ \A k \in (Len(s) - pad + 1)..Len(s) : s[k] = "="

DecodeFailure(r) == FailureShape(r) /\ r.error.msg # ""

\* C3 as claimed: every input that is not valid standard base64 gives a
\* failure with empty text, empty metadata and a non-empty error, never a
\* success.
C3_MalformedAlwaysFails ==
    (Finished /\ ~ValidBase64(pdf_base64)) => DecodeFailure(result)

\* Number of base64 alphabet characters of s.
DataChars(s) == Cardinality({k \in 1..Len(s) : s[k] \in B64Alphabet})

\* No padding, and the data characters do not fill whole quads.
OpenQuad(s) ==
    /\ \A k \in 1..Len(s) : s[k] # "="
    /\ DataChars(s) % 4 # 0

HasNonAscii(s) == \E k \in 1..Len(s) : s[k] \in NonAscii

\* C3 amended: an input that b64decode rejects (among them every input with
\* a non-ASCII character and every input without '=' whose alphabet
\* characters do not fill whole quads) gives a failure with empty text,
\* empty metadata and a non-empty error.
C3_RejectedInputFails ==
    (Finished /\ (\/ ~b64decode(pdf_base64).ok
                  \/ OpenQuad(pdf_base64)
                  \/ HasNonAscii(pdf_base64))) =>
        (exc.stage = "decode" /\ DecodeFailure(result))

\* An input with an open quad was given and rejected.
C3_Witness ==
    /\ Finished
    /\ pdf_base64 = <<"Q", "!", "Q">>
    /\ exc.stage = "decode"
    /\ result.error = Message("Incorrect padding", 0)

\* The texts the loop must have collected from the pages ps.
RECURSIVE CollectedFrom(_)
CollectedFrom(ps) ==
    IF ps = <<>> THEN <<>>
    ELSE LET front == CollectedFrom(SubSeq(ps, 1, Len(ps) - 1))
             last == ps[Len(ps)]
         IN  IF /\ ~last.raises
                /\ \E k \in 1..Len(last.text) : last.text[k] \notin Whitespace
             THEN Append(front, last.text)
             ELSE front

\* The texts ts in order, a blank line between two of them.
RECURSIVE BlankLineJoined(_)
BlankLineJoined(ts) ==
    IF Len(ts) = 0 THEN <<>>
    ELSE IF Len(ts) = 1 THEN ts[1]
    ELSE BlankLineJoined(SubSeq(ts, 1, Len(ts) - 1))
             \o <<"\n", "\n">> \o ts[Len(ts)]

\* The 1-based numbers of the pages whose extraction raises.
FailedPages(ps) == {k \in 1..Len(ps) : ps[k].raises}

DocumentOpened ==
    /\ pc \in {"pages", "print", "exit"}
    /\ Len(argv) = 1
    /\ pdf_bytes = PdfBytes
    /\ ~document.broken

\* C4: once the document is open, a page whose extraction raises is skipped
\* with a warning and the loop goes on: every page is visited, the non-blank
\* texts of the other pages are joined with "\n\n" in page order, the result
\* is a success and page_count counts all pages.
C4_PageErrorNotFatal ==
    DocumentOpened =>
        /\ exc.stage = "none"
        /\ text_content = CollectedFrom(SubSeq(document.pages, 1, page_num))
        /\ {w.n : w \in {stderr[k] : k \in 1..Len(stderr)}} =
               {k \in FailedPages(document.pages) : k <= page_num}
        /\ pc \in {"print", "exit"} =>
              /\ page_num = Len(document.pages)
              /\ full_text = BlankLineJoined(CollectedFrom(document.pages))
              /\ SuccessShape(result)
              /\ result.text = clean_text_for_llm(full_text)
              /\ result.metadata.page_count = Len(document.pages)

\* The first page raised, the second page gave its text.
C4_Witness ==
    /\ Finished
    /\ document.pages = <<PageRaises, PageText(<<"a", "B">>)>>
    /\ stderr = <<Warning(1, ExtractError)>>
    /\ result.success
    /\ result.text = <<"a", " ", "B">>
    /\ result.metadata.page_count = 2

SecondRunOfWrapped ==
    /\ Finished
    /\ prev.ran
    /\ Len(prev.argv) = 1
    /\ argv[1] = DataUriPrefix \o prev.argv[1]

SameOutcome == stdout = prev.stdout /\ exit_code = prev.exit_code

\* C7 as claimed: for every payload X, also one that begins with the
\* data-URI prefix, the run on prefix+X and the run on X give the same result.
C7_PrefixNeverMatters == SecondRunOfWrapped => SameOutcome

\* C7 amended: for every payload X that does not itself begin with the
\* data-URI prefix, the run on prefix+X and the run on X give the same
\* result.
C7_PrefixStripped ==
    (SecondRunOfWrapped /\ ~StartsWith(prev.argv[1], DataUriPrefix)) =>
        SameOutcome

\* The document was extracted from the bare payload and from the data URI.
C7_Witness ==
    /\ SecondRunOfWrapped
    /\ prev.argv = << <<"Q", "Q", "=", "=">> >>
    /\ result.success
    /\ pdf_base64 = <<"Q", "Q", "=", "=">>

\* C8: with no argument or with two or more, the command writes the usage
\* line to stderr, writes nothing to stdout, never enters the extraction and
\* exits with code 1.
C8_UsageError ==
    Len(argv) # 1 =>
        /\ pc \in {"main", "exit"}
        /\ stdout = <<>>
        /\ result = NoResult
        /\ exc = NoException
        /\ pdf_base64 = <<>> /\ pdf_bytes = <<>>
        /\ pc = "exit" => (stderr = <<UsageLine>> /\ exit_code = 1)

\* The command was given two arguments and has ended.
C8_Witness ==
    /\ pc = "exit"
    /\ Len(argv) = 2
    /\ exit_code = 1
    /\ stderr = <<UsageLine>>

-----------------------------------------------------------------------------
(* Properties of the normalizer (specification SpecClean).                 *)

Returned == line = 116

NewlineCount(s) == Cardinality({k \in 1..Len(s) : s[k] = "\n"})

HasTripleNewline(s) ==
    \E k \in 1..(Len(s) - 2) : s[k] = "\n" /\ s[k + 1] = "\n" /\ s[k + 2] = "\n"

\* Nothing left for the second pass of the steps that the first pass runs
\* too early: the newline collapse and the three line removals.
Settled(s) ==
    /\ ~HasTripleNewline(s)
    /\ RemovePageLines(s) = s
    /\ RemoveDigitLines(s) = s
    /\ RemoveOrphanPunct(s) = s

\* C5 as claimed: cleaning the cleaned text changes nothing, for every raw
\* text.
C5_Idempotent == Returned => clean_text_for_llm(text) = text

\* C5 amended: cleaning the cleaned text changes nothing exactly when the
\* cleaned text has no run of three newlines and no line that the page-line,
\* digit-line or punctuation-line removal matches.
C5_IdempotentWhenSettled ==
    Returned => (clean_text_for_llm(text) = text <=> Settled(text))

\* A raw text that cleaning changed into a settled, non-empty text.
C5_Witness ==
    /\ Returned
    /\ text # raw_text
    /\ text # <<>>
    /\ Settled(text)
    /\ clean_text_for_llm(text) = text

\* "Hello World\n\nFoo. Bar"
ExampleClaimed ==
    <<"H","e","l","l","o"," ","W","o","r","l","d","\n","\n",
      "F","o","o","."," ","B","a","r">>

\* "Hello World\n\n\nFoo. Bar"
ExampleCleaned ==
    <<"H","e","l","l","o"," ","W","o","r","l","d","\n","\n","\n",
      "F","o","o","."," ","B","a","r">>

\* C6 as claimed: the example raw text is cleaned to
\* "Hello World\n\nFoo. Bar", two newlines between the two lines.
C6_ExampleTwoNewlines ==
    (Returned /\ raw_text = ExampleRaw) => text = ExampleClaimed

\* C6 amended: the example raw text is cleaned to
\* "Hello World\n\n\nFoo. Bar": the emptied digit line stays as a line, so
\* three newlines separate the two lines.
C6_ExampleThreeNewlines ==
    (Returned /\ raw_text = ExampleRaw) => text = ExampleCleaned

\* The example has been cleaned.
C6_Witness ==
    /\ Returned
    /\ raw_text = ExampleRaw
    /\ NewlineCount(text) = 3

\* C9 as claimed: the page-line, digit-line and punctuation-line removals
\* each leave the number of newlines of the text they are run on unchanged.
C9_RemovalsKeepNewlines ==
    /\ line = 96 => NewlineCount(RemovePageLines(text)) = NewlineCount(text)
    /\ line = 97 => NewlineCount(RemoveDigitLines(text)) = NewlineCount(text)
    /\ line = 108 =>
           NewlineCount(RemoveOrphanPunct(text)) = NewlineCount(text)

\* Every newline stands between two characters that are not whitespace.
NewlinesIsolated(s) ==
    \A k \in 1..Len(s) :
        s[k] = "\n" =>
            /\ 1 < k /\ k < Len(s)
            /\ s[k - 1] \notin Whitespace
            /\ s[k + 1] \notin Whitespace

\* C9 amended: the page-line removal leaves the number of newlines
\* unchanged; the digit-line and punctuation-line removals never add a
\* newline and leave the number unchanged when every newline stands between
\* two non-whitespace characters, but otherwise can consume newlines.
C9_RemovalsAndNewlines ==
    /\ NewlineCount(RemovePageLines(text)) = NewlineCount(text)
    /\ NewlineCount(RemoveDigitLines(text)) <= NewlineCount(text)
    /\ NewlineCount(RemoveOrphanPunct(text)) <= NewlineCount(text)
    /\ NewlinesIsolated(text) =>
          /\ NewlineCount(RemoveDigitLines(text)) = NewlineCount(text)
          /\ NewlineCount(RemoveOrphanPunct(text)) = NewlineCount(text)

\* The page-line removal is about to empty a line of a text of several
\* lines, and the digit-line removal has a line to empty too.
C9_Witness ==
    /\ line = 96
    /\ NewlineCount(text) > 0
    /\ RemovePageLines(text) # text
    /\ RemoveDigitLines(text) # text

\* The positions of s where a line begins.
LineStarts(s) == {k \in 1..Len(s) : AtLineStart(s, k)}

\* A line of s, after a line that ends in a letter, begins with three or more
\* blanks followed by a letter.
HasIndentedLine(s) ==
    \E k \in LineStarts(s) :
        LET e == RunEnd(s, k, Blank)
        IN  /\ e - k >= 3 /\ e <= Len(s) /\ s[e] \in Lower \cup Upper
            /\ k >= 3 /\ s[k - 2] \in Lower \cup Upper

\* A line of s begins with a space or a tab.
HasBlankLedLine(s) == \E k \in LineStarts(s) : s[k] \in Blank

\* C10 as claimed: a raw line that begins with three or more blanks followed
\* by text still begins with whitespace in the cleaned text.
C10_IndentationKept ==
    (Returned /\ HasIndentedLine(raw_text)) => HasBlankLedLine(text)

\* C10 amended: the leading strip alone is bounded (a line of three or more
\* blanks followed by text keeps a leading blank), but the full sequence
\* first collapses every run of blanks to one space, so after the leading
\* strip, and in the cleaned text, no line begins with a space or a tab.
C10_IndentationRemoved ==
    /\ HasIndentedLine(text) => HasBlankLedLine(StripLeading(text))
    /\ line > 101 => ~HasBlankLedLine(text)

\* A line after the first was indented by three blanks and has lost them.
C10_Witness ==
    /\ Returned
    /\ raw_text = <<"a", "\n", " ", "\t", " ", "a">>
    /\ text = <<"a", "\n", "a">>

====
